---- MODULE Spec2Model ----
(***************************************************************************)
(* Model of the knowledge graph manager of mcp_knowledge_graph             *)
(* (src/src/mcp_knowledge_graph/manager.py, models.py).                    *)
(*                                                                         *)
(* The state is the storage file (a JSONL file: one record per line) and   *)
(* the wall clock.  Every manager operation is one action: it loads the    *)
(* whole file, works on the in-memory graph and, for a mutation, writes    *)
(* the whole file back.  The variables last and prev are history           *)
(* variables recording the call or the two calls a run ends with.          *)
(*                                                                         *)
(* Spec starts from an absent file and makes the mutating calls.           *)
(* SpecCleanup starts from a file of observations of every durability and  *)
(* timestamp format and runs cleanup at the ages of interest.  SpecStorage *)
(* starts from a file with legacy records and lines that are no records,   *)
(* adds the read operations and lets the storage fail.  SpecIngress makes  *)
(* the calls through which observations enter the store.  SpecExpiry lets  *)
(* time pass while cleanup and reads keep being called.  SpecConcurrent    *)
(* runs calls of several processes on one file, a call being the steps     *)
(* load, open for writing and write; inflight holds the calls in progress  *)
(* and writer the process that wrote the file last.                        *)
(***************************************************************************)
EXTENDS Integers, Sequences, FiniteSets, TLC

VARIABLES file, now, last, prev, inflight, writer

vars == <<file, now, last, prev, inflight, writer>>

(***************************************************************************)
(* Bounds of the model.                                                    *)
(***************************************************************************)
\* longest request list handed to an operation
MaxReq == 2
\* most items and observations one request carries, in all
MaxWeight == 3
\* most records and observations the file is let grow to, in all
MaxSize == 4
\* number of times the clock is advanced
MaxTicks == 1

\* days the clock advances in one step
DayStep == 400

(***************************************************************************)
(* Input domains.                                                          *)
(***************************************************************************)
Names == {"A", "B"}
EntityTypes == {"person", "org"}
Contents == {"x", "y"}
RelationTypes == {"knows"}

\* models.py DurabilityType
PERMANENT == "permanent"
LONG_TERM == "long-term"
SHORT_TERM == "short-term"
TEMPORARY == "temporary"
DurabilityType == {PERMANENT, LONG_TERM, SHORT_TERM, TEMPORARY}

\* Python's None
None == "None"

(***************************************************************************)
(* Generic list helpers.                                                   *)
(***************************************************************************)
Range(s) == {s[i] : i \in DOMAIN s}

SeqsUpTo(S, n) == UNION {[1..k -> S] : k \in 0..n}

RECURSIVE Concat(_)
Concat(ss) == IF ss = <<>> THEN <<>> ELSE Head(ss) \o Concat(Tail(ss))

RECURSIVE SumSeq(_)
SumSeq(s) == IF s = <<>> THEN 0 ELSE Head(s) + SumSeq(Tail(s))

\* number of positions of s that satisfy Test
Count(s, Test(_)) == Cardinality({i \in DOMAIN s : Test(s[i])})

(***************************************************************************)
(* Observations.  A stored or supplied observation is either a bare string *)
(* (legacy form), modelled [str |-> c], or a TimestampedObservation        *)
(* [content, timestamp, durability].  A timestamp is an ISO string; the    *)
(* model keeps its format and its day number.                              *)
(***************************************************************************)
IsStr(obs) == DOMAIN obs = {"str"}

\* datetime.isoformat() of a naive datetime
IsoFormat(t) == [fmt |-> "naive", day |-> t]

\* TimestampedObservation.create_now
CreateNow(content, durability, t) ==
    [content |-> content, timestamp |-> IsoFormat(t), durability |-> durability]

\* an ObservationInput is [content, durability], durability possibly None
IsObservationInput(x) == DOMAIN x = {"content", "durability"}

CreateTimestampedObservation(input_data, t) ==
    IF IsStr(input_data)
    THEN CreateNow(input_data.str, LONG_TERM, t)
    ELSE CreateNow(input_data.content,
                   IF input_data.durability = None THEN LONG_TERM
                   ELSE input_data.durability,
                   t)

\* variant: every load stamps every observation anew
NormalizeObservationRefresh(obs, t) ==
    IF IsStr(obs) THEN CreateTimestampedObservation(obs, t)
    ELSE [obs EXCEPT !.timestamp = IsoFormat(t)]

NormalizeObservation(obs, t) ==
    IF IsStr(obs) THEN CreateTimestampedObservation(obs, t) ELSE obs

\* obs.content if isinstance(obs, TimestampedObservation) else obs
ContentOf(obs) == IF IsStr(obs) THEN obs.str ELSE obs.content

(***************************************************************************)
(* Staleness.  datetime.fromisoformat(ts.replace('Z', '+00:00')) yields a  *)
(* naive datetime for a naive string, an aware one for a string with 'Z'   *)
(* or an offset, and raises ValueError for anything else.  Subtracting an  *)
(* aware datetime from the naive datetime.now() raises TypeError, which    *)
(* neither except clause of the manager catches.                           *)
(***************************************************************************)
\* (now - obs_date).days
DaysOld(ts, t) == t - ts.day

\* days_old / 30.0 > months, for whole days
MonthsOldExceeds(days_old, months) == days_old > months * 30

\* the subtraction now - obs_date raises TypeError
AgeRaises(obs) == obs.timestamp.fmt \in {"Z", "offset"}

\* variant: a timestamp that cannot be parsed counts as outdated
IsObservationOutdatedFailClosed(obs, t) ==
    IF obs.timestamp.fmt # "naive" THEN obs.timestamp.fmt = "bad"
    ELSE LET days_old == DaysOld(obs.timestamp, t) IN
         IF obs.durability = PERMANENT THEN FALSE
         ELSE IF obs.durability = LONG_TERM THEN MonthsOldExceeds(days_old, 24)
         ELSE IF obs.durability = SHORT_TERM THEN MonthsOldExceeds(days_old, 6)
         ELSE IF obs.durability = TEMPORARY THEN MonthsOldExceeds(days_old, 1)
         ELSE FALSE

\* the value returned when nothing escapes the try block
IsObservationOutdated(obs, t) ==
    IF obs.timestamp.fmt # "naive" THEN FALSE
    ELSE LET days_old == DaysOld(obs.timestamp, t) IN
         IF obs.durability = PERMANENT THEN FALSE
         ELSE IF obs.durability = LONG_TERM THEN MonthsOldExceeds(days_old, 24)
         ELSE IF obs.durability = SHORT_TERM THEN MonthsOldExceeds(days_old, 6)
         ELSE IF obs.durability = TEMPORARY THEN MonthsOldExceeds(days_old, 1)
         ELSE FALSE

(***************************************************************************)
(* Persistence.  The file is [exists, lines, io].  A line written by       *)
(* _save_graph is a JSON object: the model's fields under their aliases    *)
(* plus the "type" tag.  A file found at construction may also hold lines  *)
(* of other kinds: [raw |-> "blank"], [raw |-> "text"] (no JSON),          *)
(* [raw |-> "scalar"] (JSON that is no object: a number, a string, an      *)
(* array, null) and objects without the tag or the fields of a record.     *)
(* io is the condition of the storage: "ok", "read" (reading the file      *)
(* fails), "open" (opening it for writing fails), "torn_empty" and         *)
(* "torn_partial" (the write fails after the file was truncated).          *)
(***************************************************************************)
EmptyGraph == [entities |-> <<>>, relations |-> <<>>]

NoFile == [exists |-> FALSE, lines |-> <<>>, io |-> "ok"]

\* variant: observations are written in the legacy form, content only
EntityLineContentOnly(e) ==
    [type |-> "entity", name |-> e.name, entityType |-> e.entity_type,
     observations |-> [i \in DOMAIN e.observations |->
                          [str |-> ContentOf(e.observations[i])]]]

\* entity.dict(by_alias=True) plus the tag
EntityLine(e) ==
    [type |-> "entity", name |-> e.name, entityType |-> e.entity_type,
     observations |-> e.observations]

\* relation.dict(by_alias=True) plus the tag
RelationLine(r) ==
    [type |-> "relation", from |-> r.from_entity, to |-> r.to_entity,
     relationType |-> r.relation_type]

\* line.strip() is empty
IsBlank(l) == DOMAIN l = {"raw"} /\ l.raw = "blank"

\* json.loads(line) raises JSONDecodeError
IsNotJson(l) == DOMAIN l = {"raw"} /\ l.raw = "text"

\* json.loads(line) returns a value that is no dict: item.get raises
\* AttributeError
IsNotObject(l) == DOMAIN l = {"raw"} /\ l.raw = "scalar"

\* item.get("type")
TypeTag(l) ==
    IF "raw" \in DOMAIN l THEN None
    ELSE IF "type" \in DOMAIN l THEN l.type ELSE None

IsEntityLine(l) == TypeTag(l) = "entity"
IsRelationLine(l) == TypeTag(l) = "relation"

\* an element of Entity.observations validates: a string or the fields of a
\* TimestampedObservation with a durability of the enumeration
IsValidObservation(obs) ==
    \/ DOMAIN obs = {"str"}
    \/ /\ DOMAIN obs = {"content", "timestamp", "durability"}
       /\ obs.durability \in DurabilityType

\* Entity(**entity_data) validates
IsValidEntity(l) ==
    /\ {"name", "entityType", "observations"} \subseteq DOMAIN l
    /\ \A i \in DOMAIN l.observations : IsValidObservation(l.observations[i])

\* Relation(**relation_data) validates
IsValidRelation(l) == {"from", "to", "relationType"} \subseteq DOMAIN l

\* the lines load turns into an entity, and into a relation
IsEntityRecord(l) == IsEntityLine(l) /\ IsValidEntity(l)
IsRelationRecord(l) == IsRelationLine(l) /\ IsValidRelation(l)

\* Entity(**entity_data) followed by the normalization of its observations
ParseEntity(l, t) ==
    [name |-> l.name, entity_type |-> l.entityType,
     observations |-> [i \in DOMAIN l.observations |->
                          NormalizeObservation(l.observations[i], t)]]

\* Relation(**relation_data)
ParseRelation(l) ==
    [from_entity |-> l.from, to_entity |-> l.to, relation_type |-> l.relationType]

\* an exception reaches the outer except clause of _load_graph: the file
\* cannot be read, or a line holds JSON that is no object
LoadAborts(f) ==
    \/ f.io = "read"
    \/ \E i \in DOMAIN f.lines : IsNotObject(f.lines[i])

LoadGraph(f, t) ==
    IF ~f.exists THEN EmptyGraph
    ELSE IF LoadAborts(f) THEN EmptyGraph
    ELSE LET el == SelectSeq(f.lines, IsEntityRecord)
             rl == SelectSeq(f.lines, IsRelationRecord)
         IN [entities |-> [i \in DOMAIN el |-> ParseEntity(el[i], t)],
             relations |-> [i \in DOMAIN rl |-> ParseRelation(rl[i])]]

\* the file a completed _save_graph leaves
SaveGraph(graph) ==
    [exists |-> TRUE,
     lines |-> [i \in DOMAIN graph.entities |-> EntityLine(graph.entities[i])]
               \o [i \in DOMAIN graph.relations |-> RelationLine(graph.relations[i])],
     io |-> "ok"]

\* what a write that fails after open(path, 'w') leaves of the new lines
TornLines(lines, io) ==
    IF io = "torn_partial" /\ lines # <<>>
    THEN SubSeq(lines, 1, Len(lines) - 1)
    ELSE <<>>

\* the graph the file holds, read without normalization (a bare string
\* stays a bare string) and line by line
StoredGraph(f) ==
    LET el == SelectSeq(f.lines, IsEntityRecord)
        rl == SelectSeq(f.lines, IsRelationRecord)
    IN  [entities |-> [i \in DOMAIN el |->
                         [name |-> el[i].name, entity_type |-> el[i].entityType,
                          observations |-> el[i].observations]],
         relations |-> [i \in DOMAIN rl |-> ParseRelation(rl[i])]]

(***************************************************************************)
(* Manager operations.  Each is a function of the file found, the request  *)
(* and the time of the call, and yields the file left behind, the value    *)
(* returned and the exception raised (None when the call returns).         *)
(***************************************************************************)
Outcome(f, ret, err) == [file |-> f, ret |-> ret, err |-> err]

\* variant: the save keeps the lines of the file that are no records
SavedKeepingSkipped(f, graph, ret) ==
    LET skipped == SelectSeq(f.lines,
                             LAMBDA l : ~IsEntityRecord(l) /\ ~IsRelationRecord(l))
    IN  IF f.io = "open" THEN Outcome(f, <<>>, "RuntimeError")
        ELSE IF f.io \in {"torn_empty", "torn_partial"}
        THEN Outcome([exists |-> TRUE,
                      lines |-> TornLines(SaveGraph(graph).lines, f.io),
                      io |-> f.io],
                     <<>>, "RuntimeError")
        ELSE Outcome([exists |-> TRUE,
                      lines |-> SaveGraph(graph).lines \o skipped,
                      io |-> f.io], ret, None)

\* await self._save_graph(graph) as the last step of a call on file f that
\* then returns ret: the write completes, or open raises and the file is
\* untouched, or the write fails after the file was truncated; a failure
\* leaves the call as RuntimeError
Saved(f, graph, ret) ==
    IF f.io = "open" THEN Outcome(f, <<>>, "RuntimeError")
    ELSE IF f.io \in {"torn_empty", "torn_partial"}
    THEN Outcome([exists |-> TRUE,
                  lines |-> TornLines(SaveGraph(graph).lines, f.io),
                  io |-> f.io],
                 <<>>, "RuntimeError")
    ELSE Outcome([SaveGraph(graph) EXCEPT !.io = f.io], ret, None)

NamesOf(entities) == {entities[i].name : i \in DOMAIN entities}

Triple(r) == <<r.from_entity, r.to_entity, r.relation_type>>

TriplesOf(relations) == {Triple(relations[i]) : i \in DOMAIN relations}

\* variant: a requested entity replaces the stored entity of its name
CreateEntitiesOverwrite(f, entities, t) ==
    LET graph == LoadGraph(f, t)
        existing_names == NamesOf(graph.entities)
        new_entities == SelectSeq(entities, LAMBDA e : e.name \notin existing_names)
        replaced == [i \in DOMAIN graph.entities |->
                        IF \E j \in DOMAIN entities :
                              entities[j].name = graph.entities[i].name
                        THEN entities[CHOOSE j \in DOMAIN entities :
                                        entities[j].name = graph.entities[i].name]
                        ELSE graph.entities[i]]
    IN  Saved(f, [graph EXCEPT !.entities = replaced \o new_entities], new_entities)

CreateEntities(f, entities, t) ==
    LET graph == LoadGraph(f, t)
        existing_names == NamesOf(graph.entities)
        new_entities == SelectSeq(entities, LAMBDA e : e.name \notin existing_names)
    IN  Saved(f, [graph EXCEPT !.entities = @ \o new_entities], new_entities)

\* variant: the request is returned instead of the relations inserted
CreateRelationsReturnsInput(f, relations, t) ==
    LET graph == LoadGraph(f, t)
        existing_relations == TriplesOf(graph.relations)
        new_relations ==
            SelectSeq(relations, LAMBDA r : Triple(r) \notin existing_relations)
    IN  Saved(f, [graph EXCEPT !.relations = @ \o new_relations], relations)

CreateRelations(f, relations, t) ==
    LET graph == LoadGraph(f, t)
        existing_relations == TriplesOf(graph.relations)
        new_relations ==
            SelectSeq(relations, LAMBDA r : Triple(r) \notin existing_relations)
    IN  Saved(f, [graph EXCEPT !.relations = @ \o new_relations], new_relations)

\* next((i for i, e in enumerate(entities) if e.name == name), None): 0 for None
FindEntity(entities, name) ==
    IF \E i \in DOMAIN entities : entities[i].name = name
    THEN CHOOSE i \in DOMAIN entities :
            /\ entities[i].name = name
            /\ \A j \in 1..(i - 1) : entities[j].name # name
    ELSE 0

\* variant: no duplicate check
AddToEntityNoDedup(entity, contents, t) ==
    LET new_timestamped_obs ==
            [i \in DOMAIN contents |-> CreateTimestampedObservation(contents[i], t)]
    IN  [entity |-> [entity EXCEPT !.observations = @ \o new_timestamped_obs],
         added |-> new_timestamped_obs]

\* variant: the duplicate check compares content and durability
AddToEntityDedupByDurability(entity, contents, t) ==
    LET new_timestamped_obs ==
            [i \in DOMAIN contents |-> CreateTimestampedObservation(contents[i], t)]
        existing ==
            {<<entity.observations[i].content, entity.observations[i].durability>> :
                i \in DOMAIN entity.observations}
        unique_new_obs ==
            SelectSeq(new_timestamped_obs,
                      LAMBDA obs : <<obs.content, obs.durability>> \notin existing)
    IN  [entity |-> [entity EXCEPT !.observations = @ \o unique_new_obs],
         added |-> unique_new_obs]

\* the body of the request loop of add_observations, for a found entity
AddToEntity(entity, contents, t) ==
    LET new_timestamped_obs ==
            [i \in DOMAIN contents |-> CreateTimestampedObservation(contents[i], t)]
        existing_contents ==
            {ContentOf(entity.observations[i]) : i \in DOMAIN entity.observations}
        unique_new_obs ==
            SelectSeq(new_timestamped_obs,
                      LAMBDA obs : obs.content \notin existing_contents)
    IN  [entity |-> [entity EXCEPT !.observations = @ \o unique_new_obs],
         added |-> unique_new_obs]

\* the request loop of add_observations: the graph is updated in memory
\* request by request, and the first request naming no entity raises
RECURSIVE AddLoop(_, _, _, _)
AddLoop(graph, requests, results, t) ==
    IF requests = <<>> THEN [graph |-> graph, results |-> results, err |-> None]
    ELSE LET request == Head(requests)
             idx == FindEntity(graph.entities, request.entity_name)
         IN  IF idx = 0
             THEN [graph |-> graph, results |-> results, err |-> "ValueError"]
             ELSE LET step == AddToEntity(graph.entities[idx], request.contents, t)
                  IN  AddLoop([graph EXCEPT !.entities[idx] = step.entity],
                              Tail(requests),
                              Append(results,
                                     [entity_name |-> request.entity_name,
                                      added_observations |-> step.added]),
                              t)

\* variant: the graph is saved before the exception leaves the call
AddObservationsSavesPartial(f, requests, t) ==
    LET graph == LoadGraph(f, t)
        done == AddLoop(graph, requests, <<>>, t)
    IN  IF done.err # None
        THEN Outcome(Saved(f, done.graph, <<>>).file, <<>>, done.err)
        ELSE Saved(f, done.graph, done.results)

AddObservations(f, requests, t) ==
    LET graph == LoadGraph(f, t)
        done == AddLoop(graph, requests, <<>>, t)
    IN  IF done.err # None THEN Outcome(f, <<>>, done.err)
        ELSE Saved(f, done.graph, done.results)

\* variant: only the relations that start at a deleted entity are removed
DeleteEntitiesFromOnly(f, entity_names, t) ==
    LET graph == LoadGraph(f, t)
        entity_names_set == Range(entity_names)
    IN  Saved(f,
            [entities |-> SelectSeq(graph.entities,
                                    LAMBDA e : e.name \notin entity_names_set),
             relations |-> SelectSeq(graph.relations,
                                     LAMBDA r : r.from_entity \notin entity_names_set)],
            <<>>)

\* variant: a name that matches no entity raises, as in add_observations
DeleteEntitiesStrict(f, entity_names, t) ==
    LET graph == LoadGraph(f, t)
        entity_names_set == Range(entity_names)
    IN  IF entity_names_set \subseteq NamesOf(graph.entities)
        THEN Saved(f,
                [entities |-> SelectSeq(graph.entities,
                                        LAMBDA e : e.name \notin entity_names_set),
                 relations |-> SelectSeq(graph.relations,
                                         LAMBDA r :
                                            /\ r.from_entity \notin entity_names_set
                                            /\ r.to_entity \notin entity_names_set)],
                <<>>)
        ELSE Outcome(f, <<>>, "ValueError")

DeleteEntities(f, entity_names, t) ==
    LET graph == LoadGraph(f, t)
        entity_names_set == Range(entity_names)
    IN  Saved(f,
            [entities |-> SelectSeq(graph.entities,
                                    LAMBDA e : e.name \notin entity_names_set),
             relations |-> SelectSeq(graph.relations,
                                     LAMBDA r : /\ r.from_entity \notin entity_names_set
                                                /\ r.to_entity \notin entity_names_set)],
            <<>>)

\* variant: the listed contents are removed from every entity
RECURSIVE DeleteLoopAnyEntity(_, _)
DeleteLoopAnyEntity(graph, deletions) ==
    IF deletions = <<>> THEN graph
    ELSE LET deletion == Head(deletions)
             to_delete == Range(deletion.observations)
         IN  DeleteLoopAnyEntity(
                [graph EXCEPT !.entities =
                    [i \in DOMAIN @ |->
                        [@[i] EXCEPT !.observations =
                            SelectSeq(@, LAMBDA obs : ContentOf(obs) \notin to_delete)]]],
                Tail(deletions))

RECURSIVE DeleteLoop(_, _)
DeleteLoop(graph, deletions) ==
    IF deletions = <<>> THEN graph
    ELSE LET deletion == Head(deletions)
             idx == FindEntity(graph.entities, deletion.entity_name)
             to_delete == Range(deletion.observations)
         IN  IF idx = 0 THEN DeleteLoop(graph, Tail(deletions))
             ELSE DeleteLoop(
                    [graph EXCEPT !.entities[idx].observations =
                        SelectSeq(@, LAMBDA obs : ContentOf(obs) \notin to_delete)],
                    Tail(deletions))

DeleteObservations(f, deletions, t) ==
    Saved(f, DeleteLoop(LoadGraph(f, t), deletions), <<>>)

DeleteRelations(f, relations, t) ==
    LET graph == LoadGraph(f, t)
        to_delete == TriplesOf(relations)
    IN  Saved(f,
            [graph EXCEPT !.relations =
                SelectSeq(@, LAMBDA r : Triple(r) \notin to_delete)],
            <<>>)

\* one entity of the cleanup loop: the observations kept and the details
\* recorded for the removed ones
CleanupEntity(entity, t) ==
    LET normalized_obs ==
            [i \in DOMAIN entity.observations |->
                NormalizeObservation(entity.observations[i], t)]
        kept_observations ==
            SelectSeq(normalized_obs, LAMBDA obs : ~IsObservationOutdated(obs, t))
        removed == SelectSeq(normalized_obs, LAMBDA obs : IsObservationOutdated(obs, t))
    IN  [entity |-> [entity EXCEPT !.observations = kept_observations],
         details |-> [i \in DOMAIN removed |->
                        [entityName |-> entity.name,
                         content |-> removed[i].content,
                         age |-> DaysOld(removed[i].timestamp, t)]],
         removed |-> Len(entity.observations) - Len(kept_observations)]

CleanupOutdatedObservations(f, t) ==
    LET graph == LoadGraph(f, t)
        raises == \E i \in DOMAIN graph.entities :
                     \E j \in DOMAIN graph.entities[i].observations :
                        AgeRaises(graph.entities[i].observations[j])
        per == [i \in DOMAIN graph.entities |-> CleanupEntity(graph.entities[i], t)]
        total_removed == SumSeq([i \in DOMAIN per |-> per[i].removed])
        removed_details == Concat([i \in DOMAIN per |-> per[i].details])
        cleaned == [graph EXCEPT !.entities = [i \in DOMAIN per |-> per[i].entity]]
        result == [entities_processed |-> Len(graph.entities),
                   observations_removed |-> total_removed,
                   removed_observations |-> removed_details]
    IN  IF raises THEN Outcome(f, <<>>, "TypeError")
        ELSE IF total_removed > 0 THEN Saved(f, cleaned, result)
        ELSE Outcome(f, result, None)

(***************************************************************************)
(* Read operations.  A string is compared through its characters: Letters  *)
(* gives the characters of the strings the model uses.                     *)
(***************************************************************************)
Letters(str) ==
    CASE str = "" -> <<>>
      [] str = "person" -> <<"p", "e", "r", "s", "o", "n">>
      [] str = "org" -> <<"o", "r", "g">>
      [] str = "Per" -> <<"P", "e", "r">>
      [] OTHER -> <<str>>

\* str.lower(), character by character
LowerChar(c) ==
    CASE c = "A" -> "a"
      [] c = "B" -> "b"
      [] c = "P" -> "p"
      [] c = "X" -> "x"
      [] OTHER -> c

Lower(chars) == [i \in DOMAIN chars |-> LowerChar(chars[i])]

\* q in s, for sequences of characters
IsSubstring(q, chars) ==
    \E i \in 0..(Len(chars) - Len(q)) : SubSeq(chars, i + 1, i + Len(q)) = q

ReadGraph(f, t) == Outcome(f, LoadGraph(f, t), None)

\* variant: the entity's name, type and contents are compared as they are
SearchNodesCaseSensitive(f, query, t) ==
    LET graph == LoadGraph(f, t)
        query_lower == Lower(Letters(query))
        Matches(entity) ==
            \/ IsSubstring(query_lower, Letters(entity.name))
            \/ IsSubstring(query_lower, Letters(entity.entity_type))
            \/ \E i \in DOMAIN entity.observations :
                  IsSubstring(query_lower,
                              Letters(ContentOf(entity.observations[i])))
        filtered_entities == SelectSeq(graph.entities, Matches)
        filtered_entity_names == NamesOf(filtered_entities)
        filtered_relations ==
            SelectSeq(graph.relations,
                      LAMBDA r : /\ r.from_entity \in filtered_entity_names
                                 /\ r.to_entity \in filtered_entity_names)
    IN  Outcome(f, [entities |-> filtered_entities,
                    relations |-> filtered_relations], None)

\* variant: a relation is returned when one of its endpoints matched
SearchNodesEitherEndpoint(f, query, t) ==
    LET graph == LoadGraph(f, t)
        query_lower == Lower(Letters(query))
        Matches(entity) ==
            \/ IsSubstring(query_lower, Lower(Letters(entity.name)))
            \/ IsSubstring(query_lower, Lower(Letters(entity.entity_type)))
            \/ \E i \in DOMAIN entity.observations :
                  IsSubstring(query_lower,
                              Lower(Letters(ContentOf(entity.observations[i]))))
        filtered_entities == SelectSeq(graph.entities, Matches)
        filtered_entity_names == NamesOf(filtered_entities)
        filtered_relations ==
            SelectSeq(graph.relations,
                      LAMBDA r : \/ r.from_entity \in filtered_entity_names
                                 \/ r.to_entity \in filtered_entity_names)
    IN  Outcome(f, [entities |-> filtered_entities,
                    relations |-> filtered_relations], None)

SearchNodes(f, query, t) ==
    LET graph == LoadGraph(f, t)
        query_lower == Lower(Letters(query))
        Matches(entity) ==
            \/ IsSubstring(query_lower, Lower(Letters(entity.name)))
            \/ IsSubstring(query_lower, Lower(Letters(entity.entity_type)))
            \/ \E i \in DOMAIN entity.observations :
                  IsSubstring(query_lower,
                              Lower(Letters(ContentOf(entity.observations[i]))))
        filtered_entities == SelectSeq(graph.entities, Matches)
        filtered_entity_names == NamesOf(filtered_entities)
        filtered_relations ==
            SelectSeq(graph.relations,
                      LAMBDA r : /\ r.from_entity \in filtered_entity_names
                                 /\ r.to_entity \in filtered_entity_names)
    IN  Outcome(f, [entities |-> filtered_entities,
                    relations |-> filtered_relations], None)

\* variant: a relation is returned when one of its endpoints was requested
OpenNodesEitherEndpoint(f, names, t) ==
    LET graph == LoadGraph(f, t)
        names_set == Range(names)
        filtered_entities == SelectSeq(graph.entities, LAMBDA e : e.name \in names_set)
        filtered_relations ==
            SelectSeq(graph.relations,
                      LAMBDA r : \/ r.from_entity \in names_set
                                 \/ r.to_entity \in names_set)
    IN  Outcome(f, [entities |-> filtered_entities,
                    relations |-> filtered_relations], None)

OpenNodes(f, names, t) ==
    LET graph == LoadGraph(f, t)
        names_set == Range(names)
        filtered_entities == SelectSeq(graph.entities, LAMBDA e : e.name \in names_set)
        filtered_relations ==
            SelectSeq(graph.relations,
                      LAMBDA r : /\ r.from_entity \in names_set
                                 /\ r.to_entity \in names_set)
    IN  Outcome(f, [entities |-> filtered_entities,
                    relations |-> filtered_relations], None)

GetObservationsByDurability(f, entity_name, t) ==
    LET graph == LoadGraph(f, t)
        idx == FindEntity(graph.entities, entity_name)
        normalized_obs ==
            [i \in DOMAIN graph.entities[idx].observations |->
                NormalizeObservation(graph.entities[idx].observations[i], t)]
        Of(durability) ==
            SelectSeq(normalized_obs, LAMBDA obs : obs.durability = durability)
    IN  IF idx = 0 THEN Outcome(f, <<>>, "ValueError")
        ELSE Outcome(f, [permanent |-> Of(PERMANENT),
                         long_term |-> Of(LONG_TERM),
                         short_term |-> Of(SHORT_TERM),
                         temporary |-> Of(TEMPORARY)], None)

(***************************************************************************)
(* Requests.  A request is a list of at most MaxReq items whose weight,    *)
(* the number of items plus the number of observations they carry, is at   *)
(* most MaxWeight.                                                         *)
(***************************************************************************)
\* observations an entity handed to create_entities may carry: bare strings
RawObservations == {[str |-> "x"]}

EntityInputs ==
    [name : Names, entity_type : EntityTypes,
     observations : SeqsUpTo(RawObservations, MaxWeight - 1)]

EntityRequests ==
    {r \in SeqsUpTo(EntityInputs, MaxReq) :
        Len(r) + SumSeq([i \in DOMAIN r |-> Len(r[i].observations)]) <= MaxWeight}

RelationInputs ==
    [from_entity : Names, to_entity : {"B"}, relation_type : RelationTypes]

RelationRequests == SeqsUpTo(RelationInputs, MaxReq)

\* contents of an add_observations request: a string or an ObservationInput
ObservationInputs ==
    {[str |-> "x"],
     [content |-> "x", durability |-> TEMPORARY],
     [content |-> "y", durability |-> None]}

AddObservationInputs ==
    [entity_name : Names, contents : SeqsUpTo(ObservationInputs, MaxWeight - 1)]

AddObservationRequests ==
    {r \in SeqsUpTo(AddObservationInputs, MaxReq) :
        Len(r) + SumSeq([i \in DOMAIN r |-> Len(r[i].contents)]) <= MaxWeight}

DeleteObservationInputs ==
    [entity_name : Names, observations : SeqsUpTo(Contents, MaxWeight - 1)]

DeleteObservationRequests ==
    {r \in SeqsUpTo(DeleteObservationInputs, MaxReq) :
        Len(r) + SumSeq([i \in DOMAIN r |-> Len(r[i].observations)]) <= MaxWeight}

NameRequests == SeqsUpTo(Names, MaxReq)

(***************************************************************************)
(* The state machine.  file is the storage file, now the clock (in days).  *)
(* last and prev are history variables: last records the final call of a   *)
(* run (operation, request, file found, value returned, exception, time),  *)
(* and prev the call before it when the run ends with the same call made   *)
(* twice.  Calls that are not recorded leave last at NoCall.               *)
(***************************************************************************)
NoCall ==
    [op |-> "none", args |-> <<>>, pre |-> NoFile, ret |-> <<>>, err |-> None,
     time |-> 0]

\* the processes that share the storage file
Processes == {1, 2, 3}

\* a process that is in no call
Idle == [pc |-> "idle", op |-> "none", args |-> <<>>, pre |-> NoFile,
         lines |-> <<>>, ret |-> <<>>, err |-> None]

\* no call is in progress and no process has written
NoneInFlight ==
    /\ inflight = [p \in Processes |-> Idle]
    /\ writer = 0

Init ==
    /\ file = NoFile
    /\ now = 0
    /\ last = NoCall
    /\ prev = NoCall
    /\ NoneInFlight


\* the model's size limit on the file
FileSize(f) ==
    Len(f.lines) + SumSeq([i \in DOMAIN f.lines |->
                             IF IsEntityRecord(f.lines[i])
                             THEN Len(f.lines[i].observations) ELSE 0])

WithinBounds(f) == FileSize(f) <= MaxSize

\* the requests a step may pass to operation op: any request of the domain,
\* or, right after a recorded call of op, that call's request again
Choices(op, domain) ==
    IF last.op = "none" THEN domain
    ELSE IF last.op = op /\ prev.op = "none" THEN {last.args}
    ELSE {}

\* the effect of a call of op with request args and outcome o
Call(op, args, o) ==
    /\ WithinBounds(o.file)
    /\ file' = o.file
    /\ now' = now
    /\ UNCHANGED <<inflight, writer>>
    /\ LET rec == [op |-> op, args |-> args, pre |-> file, ret |-> o.ret,
                   err |-> o.err, time |-> now]
       IN  IF last.op = "none"
           THEN /\ last' \in (IF file.io = "ok" THEN {NoCall, rec} ELSE {rec})
                /\ prev' = prev
           ELSE /\ last' = rec
                /\ prev' = last

create_entities ==
    \E entities \in Choices("create_entities", EntityRequests) :
        Call("create_entities", entities, CreateEntities(file, entities, now))

create_relations ==
    \E relations \in Choices("create_relations", RelationRequests) :
        Call("create_relations", relations, CreateRelations(file, relations, now))

add_observations ==
    \E requests \in Choices("add_observations", AddObservationRequests) :
        Call("add_observations", requests, AddObservations(file, requests, now))

delete_entities ==
    \E entity_names \in Choices("delete_entities", NameRequests) :
        Call("delete_entities", entity_names, DeleteEntities(file, entity_names, now))

delete_observations ==
    \E deletions \in Choices("delete_observations", DeleteObservationRequests) :
        Call("delete_observations", deletions,
             DeleteObservations(file, deletions, now))

delete_relations ==
    \E relations \in Choices("delete_relations", RelationRequests) :
        Call("delete_relations", relations, DeleteRelations(file, relations, now))

cleanup_outdated_observations ==
    \E none \in Choices("cleanup_outdated_observations", {<<>>}) :
        Call("cleanup_outdated_observations", none,
             CleanupOutdatedObservations(file, now))

\* the queries made of search_nodes and the name lists of open_nodes: "a"
\* is no name of the model, only the lower case of one
Queries == {"", "a", "Per", "x"}

OpenRequests == {<<"A", "B">>, <<"B", "a">>}

read_graph ==
    \E none \in Choices("read_graph", {<<>>}) :
        Call("read_graph", none, ReadGraph(file, now))

search_nodes ==
    \E query \in Choices("search_nodes", Queries) :
        Call("search_nodes", query, SearchNodes(file, query, now))

open_nodes ==
    \E names \in Choices("open_nodes", OpenRequests) :
        Call("open_nodes", names, OpenNodes(file, names, now))

get_observations_by_durability ==
    \E entity_name \in Choices("get_observations_by_durability", Names) :
        Call("get_observations_by_durability", entity_name,
             GetObservationsByDurability(file, entity_name, now))

\* time passes between calls
Tick ==
    /\ last.op = "none"
    /\ now + DayStep <= MaxTicks * DayStep
    /\ now' = now + DayStep
    /\ UNCHANGED <<file, last, prev, inflight, writer>>

Next ==
    \/ create_entities
    \/ create_relations
    \/ add_observations
    \/ delete_entities
    \/ delete_observations
    \/ delete_relations
    \/ cleanup_outdated_observations
    \/ read_graph
    \/ search_nodes
    \/ open_nodes
    \/ get_observations_by_durability
    \/ Tick

Spec == Init /\ [][Next]_vars

(***************************************************************************)
(* Cleanup of a store that already exists.  The file found at construction *)
(* holds one entity whose observations were written at day 0 by any writer *)
(* of the format: typed observations of every durability whose timestamp   *)
(* is a naive ISO string, an ISO string ending in 'Z' or carrying an       *)
(* offset, or a string that is no ISO date, and legacy bare strings.  The  *)
(* clock is then advanced to one of the ages of interest.                  *)
(***************************************************************************)
\* days elapsed when cleanup runs: around each threshold and far beyond
Ages == {0, 30, 31, 150, 180, 181, 200, 720, 721, 3650}

\* the timestamp strings a stored observation may carry, written at day 0
StoredTimestamps == [fmt : {"naive", "Z", "offset", "bad"}, day : {0}]

StoredObservations ==
    [content : {"x"}, timestamp : StoredTimestamps, durability : DurabilityType]
        \cup {[str |-> "y"]}

MaxStoredObservations == 2

CleanupFiles ==
    {SaveGraph([entities |-> <<[name |-> "A", entity_type |-> "person",
                                observations |-> obs]>>,
                relations |-> rels]) :
        obs \in SeqsUpTo(StoredObservations, MaxStoredObservations),
        rels \in {<<>>, <<[from_entity |-> "A", to_entity |-> "B",
                           relation_type |-> "knows"]>>}}

InitCleanup ==
    /\ file \in CleanupFiles
    /\ now = 0
    /\ last = NoCall
    /\ prev = NoCall
    /\ NoneInFlight

\* time passes before cleanup is called
Advance ==
    /\ last.op = "none"
    /\ now = 0
    /\ \E d \in Ages : now' = d
    /\ UNCHANGED <<file, last, prev, inflight, writer>>

NextCleanup ==
    \/ cleanup_outdated_observations
    \/ Advance

SpecCleanup == InitCleanup /\ [][NextCleanup]_vars

(***************************************************************************)
(* A store that already exists, on storage that may fail.  The file found  *)
(* at construction holds records of the current and of the legacy format   *)
(* and lines that are no records.  Reads are recorded like the mutating    *)
(* calls, time may pass between a recorded call and its repetition, and    *)
(* the storage may start to fail before a call.                            *)
(***************************************************************************)
StorageLines ==
    {EntityLine([name |-> "A", entity_type |-> "person",
                 observations |-> <<[str |-> "x"]>>]),
     EntityLine([name |-> "B", entity_type |-> "org",
                 observations |->
                    <<[content |-> "y",
                       timestamp |-> [fmt |-> "naive", day |-> 0],
                       durability |-> TEMPORARY],
                      [str |-> "x"]>>]),
     RelationLine([from_entity |-> "A", to_entity |-> "B",
                   relation_type |-> "knows"]),
     [raw |-> "blank"],
     [raw |-> "text"],
     [raw |-> "scalar"],
     [type |-> "note", name |-> "A"],
     [name |-> "A", entityType |-> "person", observations |-> <<>>],
     [type |-> "entity", name |-> "A"],
     [type |-> "relation", from |-> "A"]}

MaxStoredLines == 2

StorageFiles ==
    {NoFile} \cup
    {[exists |-> TRUE, lines |-> lines, io |-> "ok"] :
        lines \in SeqsUpTo(StorageLines, MaxStoredLines)}

\* the ways the storage fails
StorageFaults == {"read", "open", "torn_empty", "torn_partial"}

\* the requests made of a store of this kind
StorageEntityRequests ==
    {<<[name |-> "B", entity_type |-> "person", observations |-> <<[str |-> "x"]>>]>>}

StorageRelationRequests ==
    {<<[from_entity |-> "A", to_entity |-> "B", relation_type |-> "knows"]>>}

StorageAddRequests == {<<[entity_name |-> "A", contents |-> <<[str |-> "y"]>>]>>}

StorageDeleteObservationRequests ==
    {<<[entity_name |-> "A", observations |-> <<"x">>]>>}

StorageNameRequests == {<<"A">>}

InitStorage ==
    /\ file \in StorageFiles
    /\ now = 0
    /\ last = NoCall
    /\ prev = NoCall
    /\ NoneInFlight

\* time passes between a recorded call and its repetition
Elapse ==
    /\ last.op # "none"
    /\ prev.op = "none"
    /\ now + DayStep <= MaxTicks * DayStep
    /\ now' = now + DayStep
    /\ UNCHANGED <<file, last, prev, inflight, writer>>

\* the storage starts to fail
Fault ==
    /\ last.op = "none"
    /\ file.io = "ok"
    /\ \E k \in StorageFaults :
          /\ k = "read" => file.exists
          /\ file' = [file EXCEPT !.io = k]
    /\ UNCHANGED <<now, last, prev, inflight, writer>>

NextStorage ==
    \/ read_graph
    \/ search_nodes
    \/ open_nodes
    \/ get_observations_by_durability
    \/ \E entities \in Choices("create_entities", StorageEntityRequests) :
          Call("create_entities", entities, CreateEntities(file, entities, now))
    \/ \E relations \in Choices("create_relations", StorageRelationRequests) :
          Call("create_relations", relations, CreateRelations(file, relations, now))
    \/ \E requests \in Choices("add_observations", StorageAddRequests) :
          Call("add_observations", requests, AddObservations(file, requests, now))
    \/ \E entity_names \in Choices("delete_entities", StorageNameRequests) :
          Call("delete_entities", entity_names,
               DeleteEntities(file, entity_names, now))
    \/ \E deletions \in Choices("delete_observations",
                                StorageDeleteObservationRequests) :
          Call("delete_observations", deletions,
               DeleteObservations(file, deletions, now))
    \/ \E relations \in Choices("delete_relations", StorageRelationRequests) :
          Call("delete_relations", relations, DeleteRelations(file, relations, now))
    \/ cleanup_outdated_observations
    \/ Tick
    \/ Elapse
    \/ Fault

SpecStorage == InitStorage /\ [][NextStorage]_vars

(***************************************************************************)
(* What can enter a store that starts empty.  Entities are created with    *)
(* observation lists that repeat no content; observations are added as     *)
(* strings and as ObservationInput objects, the empty string included,     *)
(* with contents repeated within a request and requests repeated within a  *)
(* call.                                                                   *)
(***************************************************************************)
\* the observation lists of created entities: bare strings, no content twice
IngressObservationLists ==
    {<<>>, <<[str |-> "x"]>>, <<[str |-> ""]>>, <<[str |-> "x"], [str |-> "y"]>>}

IngressEntityRequests ==
    {<<[name |-> n, entity_type |-> "person", observations |-> obs]>> :
        n \in Names, obs \in IngressObservationLists}

\* the contents of an add_observations request
IngressContents ==
    {[str |-> "x"], [str |-> ""],
     [content |-> "x", durability |-> TEMPORARY],
     [content |-> "", durability |-> None]}

IngressAddInputs ==
    [entity_name : Names, contents : SeqsUpTo(IngressContents, MaxWeight - 1)]

IngressAddRequests ==
    {r \in SeqsUpTo(IngressAddInputs, MaxReq) :
        Len(r) + SumSeq([i \in DOMAIN r |-> Len(r[i].contents)]) <= MaxWeight + 1}

IngressDeleteRequests ==
    {<<[entity_name |-> n, observations |-> <<c>>]>> : n \in Names, c \in {"x", ""}}

NextIngress ==
    \/ \E entities \in Choices("create_entities", IngressEntityRequests) :
          Call("create_entities", entities, CreateEntities(file, entities, now))
    \/ \E requests \in Choices("add_observations", IngressAddRequests) :
          Call("add_observations", requests, AddObservations(file, requests, now))
    \/ \E deletions \in Choices("delete_observations", IngressDeleteRequests) :
          Call("delete_observations", deletions,
               DeleteObservations(file, deletions, now))
    \/ cleanup_outdated_observations
    \/ read_graph
    \/ Tick

SpecIngress == Init /\ [][NextIngress]_vars

(***************************************************************************)
(* Expiry over time.  The file found holds one entity with observations   *)
(* written on day 0; from then on time keeps passing up to the horizon,    *)
(* and cleanup and reads of the whole graph keep being called, in any      *)
(* order and any number of times.  last records the latest call.  Time     *)
(* passes, and each of the two calls is made again, whenever that changes  *)
(* the state (weak fairness).                                              *)
(***************************************************************************)
ExpiryObservations ==
    {[content |-> "x", timestamp |-> [fmt |-> "naive", day |-> 0],
      durability |-> TEMPORARY],
     [content |-> "x", timestamp |-> [fmt |-> "naive", day |-> 0],
      durability |-> LONG_TERM],
     [content |-> "x", timestamp |-> [fmt |-> "naive", day |-> 0],
      durability |-> PERMANENT],
     [content |-> "x", timestamp |-> [fmt |-> "bad", day |-> 0],
      durability |-> TEMPORARY],
     [content |-> "x", timestamp |-> [fmt |-> "Z", day |-> 0],
      durability |-> SHORT_TERM],
     [str |-> "y"]}

ExpiryFiles ==
    {SaveGraph([entities |-> <<[name |-> "A", entity_type |-> "person",
                                observations |-> obs]>>,
                relations |-> <<>>]) :
        obs \in SeqsUpTo(ExpiryObservations, MaxStoredObservations)}

InitExpiry ==
    /\ file \in ExpiryFiles
    /\ now = 0
    /\ last = NoCall
    /\ prev = NoCall
    /\ NoneInFlight

\* the last day of the model: twice the longest threshold, and a day
Horizon == 1442

ExpiryAges == {0, 31, 721, Horizon}

Returned(op, o) ==
    /\ file' = o.file
    /\ last' = [op |-> op, args |-> <<>>, pre |-> file, ret |-> o.ret,
                err |-> o.err, time |-> now]
    /\ UNCHANGED <<now, prev, inflight, writer>>

RunCleanup ==
    Returned("cleanup_outdated_observations", CleanupOutdatedObservations(file, now))

RunReadGraph == Returned("read_graph", ReadGraph(file, now))

TimePasses ==
    /\ \E d \in ExpiryAges : d > now /\ now' = d
    /\ UNCHANGED <<file, last, prev, inflight, writer>>

NextExpiry ==
    \/ RunCleanup
    \/ RunReadGraph
    \/ TimePasses

SpecExpiry ==
    /\ InitExpiry
    /\ [][NextExpiry]_vars
    /\ WF_vars(TimePasses)
    /\ WF_vars(RunCleanup)
    /\ WF_vars(RunReadGraph)

(***************************************************************************)
(* Calls of several processes on one storage file.  No call takes a lock:  *)
(* a mutating call is the steps load (with the computation of the graph    *)
(* to save), open(path, 'w'), which truncates the file, and write, which   *)
(* puts the lines at the start of the file; a read is the step load.       *)
(* Steps of different processes interleave freely.  Processes 1 and 2      *)
(* each create one entity, process 3 reads the graph.  The records are     *)
(* entities without observations, whose lines all have one length, so a    *)
(* write over a longer file replaces whole lines.                          *)
(***************************************************************************)
ConcurrentEntity(n) == [name |-> n, entity_type |-> "person", observations |-> <<>>]

ConcurrentFiles ==
    {NoFile,
     SaveGraph([entities |-> <<ConcurrentEntity("C")>>, relations |-> <<>>])}

ConcurrentRequests == {<<ConcurrentEntity("A")>>, <<ConcurrentEntity("B")>>}

\* the processes that create entities; the other one reads
Writers == {1, 2}

InitConcurrent ==
    /\ file \in ConcurrentFiles
    /\ now = 0
    /\ last = NoCall
    /\ prev = NoCall
    /\ NoneInFlight

\* variant: the write keeps the records the file holds
WriteMerged(lines, new) ==
    SelectSeq(lines, LAMBDA l : l \notin Range(new)) \o new

\* f.write of the joined lines at offset 0: what the file holds beyond them
\* stays
WriteAt(lines, new) == new \o SubSeq(lines, Len(new) + 1, Len(lines))

\* create_entities up to its call of _save_graph: the load, the graph to
\* save and the value to return
BeginCreateEntities(p) ==
    /\ p \in Writers
    /\ inflight[p].pc = "idle"
    /\ \E entities \in ConcurrentRequests :
          LET o == CreateEntities(file, entities, now)
          IN  inflight' = [inflight EXCEPT ![p] =
                             [pc |-> "loaded", op |-> "create_entities",
                              args |-> entities, pre |-> file,
                              lines |-> o.file.lines, ret |-> o.ret,
                              err |-> o.err]]
    /\ UNCHANGED <<file, now, last, prev, writer>>

\* open(self.memory_file_path, 'w') truncates the file
OpenForWriting(p) ==
    /\ inflight[p].pc = "loaded"
    /\ inflight' = [inflight EXCEPT ![p].pc = "opened"]
    /\ file' = [exists |-> TRUE, lines |-> <<>>, io |-> file.io]
    /\ writer' = 0
    /\ UNCHANGED <<now, last, prev>>

\* f.write and the close of the file; the call returns
WriteLines(p) ==
    /\ inflight[p].pc = "opened"
    /\ inflight' = [inflight EXCEPT ![p].pc = "done"]
    /\ file' = [file EXCEPT !.lines = WriteAt(file.lines, inflight[p].lines)]
    /\ writer' = p
    /\ UNCHANGED <<now, last, prev>>

\* read_graph: the load, and the call returns
BeginReadGraph(p) ==
    /\ p \notin Writers
    /\ inflight[p].pc = "idle"
    /\ LET o == ReadGraph(file, now)
       IN  inflight' = [inflight EXCEPT ![p] =
                          [pc |-> "done", op |-> "read_graph", args |-> <<>>,
                           pre |-> file, lines |-> <<>>, ret |-> o.ret,
                           err |-> o.err]]
    /\ UNCHANGED <<file, now, last, prev, writer>>

NextConcurrent ==
    \E p \in Processes :
        \/ BeginCreateEntities(p)
        \/ OpenForWriting(p)
        \/ WriteLines(p)
        \/ BeginReadGraph(p)

SpecConcurrent == InitConcurrent /\ [][NextConcurrent]_vars

(***************************************************************************)
(* Properties.  Stored is the graph the file holds now; Before is the      *)
(* graph the recorded call loaded (the file it found, normalized at the    *)
(* time of the call).                                                      *)
(***************************************************************************)
Stored == StoredGraph(file)

Before == LoadGraph(last.pre, last.time)

Recorded(op) == last.op = op

\* the run ends with the same call made twice
Repeated == prev.op # "none" /\ prev.op = last.op /\ prev.args = last.args

NameCount(entities, name) == Count(entities, LAMBDA e : e.name = name)

ContentCount(observations, c) == Count(observations, LAMBDA obs : ContentOf(obs) = c)

\* C1: entity names are unique within the stored graph: the file never
\* holds two entity records with the same name.
C1_UniqueEntityNames ==
    \A i, j \in DOMAIN Stored.entities :
        Stored.entities[i].name = Stored.entities[j].name => i = j

\* C2: relation triples are unique within the stored graph: the file never
\* holds two relation records with the same (from, to, relation_type).
C2_UniqueRelationTriples ==
    \A i, j \in DOMAIN Stored.relations :
        Triple(Stored.relations[i]) = Triple(Stored.relations[j]) => i = j

\* C3: create_entities([e]) made twice in a row leaves exactly one entity
\* named e.name in the store, and the second call returns an empty list.
C3_CreateEntitiesIdempotent ==
    (Repeated /\ Recorded("create_entities") /\ Len(last.args) = 1) =>
        /\ NameCount(Stored.entities, last.args[1].name) = 1
        /\ last.ret = <<>>

\* C4: first writer wins.  A create_entities call leaves every entity it
\* found as it loaded it (name, entity_type, observations) and in place,
\* leaves the relations alone, returns no entity whose name was taken, and
\* appends the entities it returns after the existing ones.
C4_FirstWriterWins ==
    Recorded("create_entities") =>
        LET n == Len(Before.entities) IN
        /\ last.err = None
        /\ Len(Stored.entities) >= n
        /\ \A i \in 1..n : Stored.entities[i] = Before.entities[i]
        /\ Stored.relations = Before.relations
        /\ \A i \in DOMAIN last.args :
              last.args[i].name \in NamesOf(Before.entities) =>
                 \A j \in DOMAIN last.ret : last.ret[j].name # last.args[i].name
        /\ SubSeq(Stored.entities, n + 1, Len(Stored.entities)) = last.ret

\* a create_entities call that names a stored entity with another type and
\* other observations, together with a new entity
C4_Witness ==
    /\ Recorded("create_entities")
    /\ last.ret # <<>>
    /\ Before.relations # <<>>
    /\ \E i \in DOMAIN last.args : \E k \in DOMAIN Before.entities :
          /\ last.args[i].name = Before.entities[k].name
          /\ last.args[i].entity_type # Before.entities[k].entity_type
          /\ Len(last.args[i].observations) # Len(Before.entities[k].observations)

\* C5: add_observations raises the not-found error whenever a request of
\* the call names an entity that is not in the store, and then the file is
\* exactly the file the call found.
C5_AddObservationsNotFound ==
    (/\ Recorded("add_observations")
     /\ \E i \in DOMAIN last.args :
           last.args[i].entity_name \notin NamesOf(Before.entities)) =>
        /\ last.err = "ValueError"
        /\ last.ret = <<>>
        /\ file = last.pre

\* a failed call whose first request named a stored entity and carried an
\* observation that entity did not hold
C5_Witness ==
    /\ Recorded("add_observations")
    /\ last.err = "ValueError"
    /\ Len(last.args) = 2
    /\ LET k == FindEntity(Before.entities, last.args[1].entity_name) IN
       /\ k # 0
       /\ last.args[1].contents # <<>>
       /\ ContentCount(Before.entities[k].observations,
                       ContentOf(last.args[1].contents[1])) = 0

\* the run ends with add_observations made twice with one request that
\* carries one content, for a stored entity
TwiceOneContent ==
    /\ Repeated
    /\ Recorded("add_observations")
    /\ last.err = None
    /\ Len(last.args) = 1
    /\ Len(last.args[1].contents) = 1

\* C6 as claimed: after add_observations with content c on an entity made
\* twice, the entity holds exactly one observation with content c and the
\* second call's result lists nothing added.
C6_ExactlyOneAfterTwoAdds ==
    TwiceOneContent =>
        LET k == FindEntity(Stored.entities, last.args[1].entity_name)
            c == ContentOf(last.args[1].contents[1])
        IN  /\ ContentCount(Stored.entities[k].observations, c) = 1
            /\ last.ret[1].added_observations = <<>>

\* C6 as amended: the second call adds nothing and leaves the file as it
\* found it, and the entity holds as many observations with content c as it
\* held before the first call, or one when it held none.
C6_SecondAddAddsNothing ==
    TwiceOneContent =>
        LET k == FindEntity(Stored.entities, last.args[1].entity_name)
            c == ContentOf(last.args[1].contents[1])
            first == LoadGraph(prev.pre, prev.time)
            held == ContentCount(first.entities[k].observations, c)
        IN  /\ last.ret[1].added_observations = <<>>
            /\ file = last.pre
            /\ ContentCount(Stored.entities[k].observations, c)
                  = IF held = 0 THEN 1 ELSE held

\* the first of the two calls added the observation
C6_Witness ==
    /\ TwiceOneContent
    /\ prev.ret[1].added_observations # <<>>
    /\ LET k == FindEntity(Stored.entities, last.args[1].entity_name) IN
       ContentCount(Stored.entities[k].observations,
                    ContentOf(last.args[1].contents[1])) = 1

\* C7: the duplicate check of add_observations compares content only: a
\* content the entity already holds is not added, whatever durability is
\* requested, and the observations the entity held keep their place,
\* durability and timestamp.
C7_DuplicateCheckByContentOnly ==
    (Recorded("add_observations") /\ last.err = None) =>
        \A i \in DOMAIN last.args :
            LET k == FindEntity(Before.entities, last.args[i].entity_name)
                held == Before.entities[k].observations
            IN  /\ SubSeq(Stored.entities[k].observations, 1, Len(held)) = held
                /\ \A j \in DOMAIN last.args[i].contents :
                      ContentCount(held, ContentOf(last.args[i].contents[j])) > 0 =>
                         \A m \in DOMAIN last.ret[i].added_observations :
                            last.ret[i].added_observations[m].content
                               # ContentOf(last.args[i].contents[j])

\* a content held since an earlier day is added again with another
\* durability, and nothing is added
C7_Witness ==
    /\ Recorded("add_observations")
    /\ last.err = None
    /\ Len(last.args) = 1
    /\ last.ret[1].added_observations = <<>>
    /\ LET k == FindEntity(Before.entities, last.args[1].entity_name) IN
       \E j \in DOMAIN last.args[1].contents :
          \E h \in DOMAIN Before.entities[k].observations :
             LET input == last.args[1].contents[j]
                 obs == Before.entities[k].observations[h]
             IN  /\ IsObservationInput(input)
                 /\ input.durability \in DurabilityType
                 /\ obs.content = input.content
                 /\ obs.durability # input.durability
                 /\ obs.timestamp.day < last.time
                 /\ obs \in Range(Stored.entities[k].observations)

\* the observation add_observations makes of a requested content at time t
\* has the content asked for, the durability asked for (LONG_TERM when the
\* content is a string or names no durability) and t as timestamp
MadeFrom(obs, input, t) ==
    /\ obs.content = ContentOf(input)
    /\ obs.durability = IF IsStr(input) THEN LONG_TERM
                        ELSE IF input.durability = None THEN LONG_TERM
                        ELSE input.durability
    /\ obs.timestamp = [fmt |-> "naive", day |-> t]

\* the observations the results of an add_observations call list for the
\* k-th stored entity, in request order
AddedTo(k) ==
    Concat([i \in DOMAIN last.ret |->
              IF FindEntity(Before.entities, last.args[i].entity_name) = k
              THEN last.ret[i].added_observations ELSE <<>>])

\* C8: a create operation returns the delta it applied.  The store after
\* create_entities (create_relations) is the graph the call loaded followed
\* by the entities (relations) returned, none of which was in it before;
\* after add_observations every entity holds what it held followed by the
\* observations the results list for it, none of whose contents it held,
\* and each returned observation carries the time of the call and the
\* requested durability, LONG_TERM when none was given.
C8_ReturnsAppliedDelta ==
    /\ Recorded("create_entities") =>
          /\ Stored.entities = Before.entities \o last.ret
          /\ Stored.relations = Before.relations
          /\ NamesOf(last.ret) \cap NamesOf(Before.entities) = {}
    /\ Recorded("create_relations") =>
          /\ Stored.relations = Before.relations \o last.ret
          /\ Stored.entities = Before.entities
          /\ TriplesOf(last.ret) \cap TriplesOf(Before.relations) = {}
    /\ (Recorded("add_observations") /\ last.err = None) =>
          /\ Stored.relations = Before.relations
          /\ Len(Stored.entities) = Len(Before.entities)
          /\ Len(last.ret) = Len(last.args)
          /\ \A k \in DOMAIN Before.entities :
                /\ Stored.entities[k].name = Before.entities[k].name
                /\ Stored.entities[k].entity_type = Before.entities[k].entity_type
                /\ Stored.entities[k].observations
                      = Before.entities[k].observations \o AddedTo(k)
                /\ \A m \in DOMAIN AddedTo(k) :
                      ContentCount(Before.entities[k].observations,
                                   AddedTo(k)[m].content) = 0
          /\ \A i \in DOMAIN last.ret :
                /\ last.ret[i].entity_name = last.args[i].entity_name
                /\ \A m \in DOMAIN last.ret[i].added_observations :
                      \E j \in DOMAIN last.args[i].contents :
                         MadeFrom(last.ret[i].added_observations[m],
                                  last.args[i].contents[j], last.time)

\* a create_relations call that returns part of what was requested
C8_Witness ==
    /\ Recorded("create_relations")
    /\ last.ret # <<>>
    /\ Len(last.ret) < Len(last.args)
    /\ Before.relations # <<>>

\* C9: after delete_entities(N) the store holds no entity named in N and
\* no relation that starts or ends at a name in N, and it holds every other
\* entity and relation the call loaded, unchanged and in order.
C9_CascadingDelete ==
    Recorded("delete_entities") =>
        LET N == Range(last.args) IN
        /\ \A i \in DOMAIN Stored.entities : Stored.entities[i].name \notin N
        /\ \A i \in DOMAIN Stored.relations :
              /\ Stored.relations[i].from_entity \notin N
              /\ Stored.relations[i].to_entity \notin N
        /\ Stored.entities = SelectSeq(Before.entities, LAMBDA e : e.name \notin N)
        /\ Stored.relations =
              SelectSeq(Before.relations,
                        LAMBDA r : r.from_entity \notin N /\ r.to_entity \notin N)

\* an entity is deleted with a relation that starts at it, and another
\* entity and a relation that does not touch the deleted entity remain
C9_Witness ==
    /\ Recorded("delete_entities")
    /\ Len(Stored.entities) = 1
    /\ Len(Before.entities) = 2
    /\ Len(Stored.relations) = 1
    /\ Len(Before.relations) = 2

\* C10 as claimed: a delete_entities call whose names match no entity
\* succeeds and leaves the store as the call loaded it.
C10_AbsentNamesLeaveStore ==
    (/\ Recorded("delete_entities")
     /\ Range(last.args) \cap NamesOf(Before.entities) = {}) =>
        /\ last.err = None
        /\ Stored = Before

\* the names that are an endpoint of a relation
EndpointsOf(relations) ==
    {relations[i].from_entity : i \in DOMAIN relations}
        \cup {relations[i].to_entity : i \in DOMAIN relations}

\* C10 as amended: delete_entities succeeds whatever names it is given; the
\* entities it leaves are those it loaded less the ones whose name was
\* passed, so a name that matches no entity changes no entity; the relations
\* it removes are those with a passed name as from or to, also when that
\* name matches no entity; a call whose names match no entity and no
\* endpoint of a relation leaves the store as the call loaded it.
C10_AbsentNamesIgnored ==
    Recorded("delete_entities") =>
        LET N == Range(last.args)
            present == N \cap NamesOf(Before.entities)
        IN  /\ last.err = None
            /\ Stored.entities =
                  SelectSeq(Before.entities, LAMBDA e : e.name \notin present)
            /\ Stored.relations =
                  SelectSeq(Before.relations,
                            LAMBDA r : r.from_entity \notin N /\ r.to_entity \notin N)
            /\ N \cap (NamesOf(Before.entities) \cup EndpointsOf(Before.relations)) = {}
                  => Stored = Before

\* a call whose names match no entity while the store holds an entity, and
\* a relation ending at a passed name is removed
C10_Witness ==
    /\ Recorded("delete_entities")
    /\ last.args # <<>>
    /\ Range(last.args) \cap NamesOf(Before.entities) = {}
    /\ Before.entities # <<>>
    /\ Stored.entities = Before.entities
    /\ Len(Stored.relations) < Len(Before.relations)

\* the contents a delete_observations request lists for the k-th entity the
\* call loaded: those of the requests whose name resolves to that entity
ListedFor(k) ==
    UNION {Range(last.args[i].observations) :
              i \in {j \in DOMAIN last.args :
                        FindEntity(Before.entities, last.args[j].entity_name) = k}}

\* C11: delete_observations removes from the named entity (the record the
\* name resolves to) every observation whose content is one of the listed
\* strings and keeps its other observations in order; every other entity
\* and every relation stays as the call loaded it, and a request that names
\* no stored entity changes nothing and does not fail the call.
C11_DeleteObservationsFrame ==
    Recorded("delete_observations") =>
        /\ last.err = None
        /\ Stored.relations = Before.relations
        /\ Len(Stored.entities) = Len(Before.entities)
        /\ \A k \in DOMAIN Before.entities :
              /\ Stored.entities[k].name = Before.entities[k].name
              /\ Stored.entities[k].entity_type = Before.entities[k].entity_type
              /\ Stored.entities[k].observations =
                    SelectSeq(Before.entities[k].observations,
                              LAMBDA obs : obs.content \notin ListedFor(k))
        /\ (\A i \in DOMAIN last.args :
                last.args[i].entity_name \notin NamesOf(Before.entities))
              => Stored = Before

\* a call with a request for an entity that is not stored and a request
\* that removes an observation of a stored entity, while another stored
\* entity keeps an observation of the same content
C11_Witness ==
    /\ Recorded("delete_observations")
    /\ \E i \in DOMAIN last.args :
          last.args[i].entity_name \notin NamesOf(Before.entities)
    /\ \E k \in DOMAIN Before.entities :
          /\ Len(Stored.entities[k].observations)
                < Len(Before.entities[k].observations)
          /\ Stored.entities[k].observations # <<>>

\* the graph the file holds after the recorded call, read as the call read
\* the file it found
After == LoadGraph(file, last.time)

\* the staleness rule as the specification words it, for an observation of
\* the given durability that is d whole days old
ThresholdExceeded(durability, d) ==
    \/ durability = LONG_TERM /\ d > 720
    \/ durability = SHORT_TERM /\ d > 180
    \/ durability = TEMPORARY /\ d > 30

\* the timestamp is an ISO date, with or without a zone
Parseable(obs) == obs.timestamp.fmt \in {"naive", "Z", "offset"}

\* C12: staleness thresholds.  Whenever cleanup runs, the staleness check
\* of every loaded observation whose timestamp parses and is d whole days
\* old yields a value, false for PERMANENT and otherwise true exactly when
\* LONG_TERM and d > 720, SHORT_TERM and d > 180, or TEMPORARY and d > 30;
\* so SHORT_TERM is outdated at 200 days and kept at 150 and at 180.
C12_StalenessThresholds ==
    Recorded("cleanup_outdated_observations") =>
        \A k \in DOMAIN Before.entities :
            \A j \in DOMAIN Before.entities[k].observations :
                LET obs == Before.entities[k].observations[j]
                    d == last.time - obs.timestamp.day
                IN  Parseable(obs) =>
                       /\ ~AgeRaises(obs)
                       /\ IsObservationOutdated(obs, last.time)
                             <=> ThresholdExceeded(obs.durability, d)
                       /\ (obs.durability = SHORT_TERM /\ d = 200)
                             => IsObservationOutdated(obs, last.time)
                       /\ (obs.durability = SHORT_TERM /\ d \in {150, 180})
                             => ~IsObservationOutdated(obs, last.time)

\* C13: cleanup_outdated_observations removes exactly the observations the
\* staleness check classifies as outdated at the time of the call: every
\* entity keeps its other observations unchanged and in order, no entity
\* and no relation is removed, a call that returns reports as many removals
\* as its detail list has entries and as observations left the store, and
\* the file is left as found when nothing was removed.
C13_CleanupRemovesExactlyOutdated ==
    Recorded("cleanup_outdated_observations") =>
        /\ After.relations = Before.relations
        /\ Len(After.entities) = Len(Before.entities)
        /\ \A k \in DOMAIN Before.entities :
              /\ After.entities[k].name = Before.entities[k].name
              /\ After.entities[k].entity_type = Before.entities[k].entity_type
              /\ After.entities[k].observations =
                    SelectSeq(Before.entities[k].observations,
                              LAMBDA obs :
                                 ~(/\ ~AgeRaises(obs)
                                   /\ IsObservationOutdated(obs, last.time)))
        /\ last.err = None =>
              /\ last.ret.observations_removed = Len(last.ret.removed_observations)
              /\ last.ret.observations_removed =
                    SumSeq([k \in DOMAIN Before.entities |->
                               Len(Before.entities[k].observations)
                                  - Len(After.entities[k].observations)])
              /\ last.ret.entities_processed = Len(Before.entities)
              /\ last.ret.observations_removed = 0 => file = last.pre

\* true of the observations whose timestamp is no ISO date
Unparseable(obs) == obs.timestamp.fmt = "bad"

\* C14: fail open on bad timestamps.  An observation whose timestamp cannot
\* be parsed is not classified as outdated, at any age and whatever its
\* durability, and a cleanup call leaves every such observation on its
\* entity and lists none of them as removed.
C14_FailOpenOnBadTimestamp ==
    Recorded("cleanup_outdated_observations") =>
        \A k \in DOMAIN Before.entities :
            LET held == Before.entities[k].observations IN
            /\ \A j \in DOMAIN held :
                  Unparseable(held[j]) =>
                     /\ ~AgeRaises(held[j])
                     /\ \A d \in Ages : ~IsObservationOutdated(held[j], d)
            /\ SelectSeq(After.entities[k].observations, Unparseable)
                  = SelectSeq(held, Unparseable)
            /\ (last.err = None /\ \A j \in DOMAIN held : Unparseable(held[j]))
                  => /\ last.ret.observations_removed = 0
                     /\ file = last.pre

\* a cleanup ten years on that removes an observation and keeps a TEMPORARY
\* one whose timestamp cannot be parsed
C14_Witness ==
    /\ Recorded("cleanup_outdated_observations")
    /\ last.err = None
    /\ last.time = 3650
    /\ last.ret.observations_removed = 1
    /\ \E j \in DOMAIN Stored.entities[1].observations :
          /\ Stored.entities[1].observations[j].durability = TEMPORARY
          /\ Unparseable(Stored.entities[1].observations[j])

ReadOps == {"read_graph", "search_nodes", "open_nodes",
            "get_observations_by_durability"}

\* the operations that end with _save_graph whenever they do not raise
SavingOps == {"create_entities", "create_relations", "add_observations",
              "delete_entities", "delete_observations", "delete_relations"}

\* the times at which the model makes calls
Times == {k * DayStep : k \in 0..MaxTicks}

\* the timestamps a recorded read reports, observation by observation
ReportedTimestamps(call) ==
    IF call.op = "get_observations_by_durability"
    THEN LET Stamps(group) == [i \in DOMAIN group |-> group[i].timestamp]
         IN  <<Stamps(call.ret.permanent), Stamps(call.ret.long_term),
               Stamps(call.ret.short_term), Stamps(call.ret.temporary)>>
    ELSE [i \in DOMAIN call.ret.entities |->
             [j \in DOMAIN call.ret.entities[i].observations |->
                 call.ret.entities[i].observations[j].timestamp]]

\* C15: an observation's timestamp is set once and never changes: when the
\* same read (read_graph, search_nodes, open_nodes or
\* get_observations_by_durability, same argument) is made twice with
\* nothing but time in between, both reads report the same timestamp for
\* every observation.
C15_TimestampSetOnce ==
    (/\ Repeated
     /\ last.op \in ReadOps
     /\ prev.err = None
     /\ last.err = None) =>
        ReportedTimestamps(prev) = ReportedTimestamps(last)

\* C16: legacy normalization.  A read of the whole graph returns a stored
\* bare string s as the observation with content s, durability LONG_TERM
\* and the time of the read, and a stored typed observation as it is
\* stored; once a call has saved the entities it loaded, a later call loads
\* them with the timestamps that were saved and saves them again unchanged,
\* and so does every load of the file at any time.
C16_LegacyNormalization ==
    /\ (/\ Recorded("read_graph")
        /\ last.pre.exists
        /\ ~LoadAborts(last.pre)) =>
          LET raw == StoredGraph(last.pre).entities IN
          /\ Len(last.ret.entities) = Len(raw)
          /\ \A i \in DOMAIN raw :
                /\ Len(last.ret.entities[i].observations) = Len(raw[i].observations)
                /\ \A j \in DOMAIN raw[i].observations :
                      LET stored == raw[i].observations[j]
                          loaded == last.ret.entities[i].observations[j]
                      IN  IF IsStr(stored)
                          THEN loaded = [content |-> stored.str,
                                         timestamp |-> [fmt |-> "naive",
                                                        day |-> last.time],
                                         durability |-> LONG_TERM]
                          ELSE loaded = stored
    /\ (/\ Repeated
        /\ Recorded("delete_relations")
        /\ prev.err = None
        /\ last.err = None) =>
          LET first == LoadGraph(prev.pre, prev.time) IN
          /\ Before.entities = first.entities
          /\ Stored.entities = first.entities
          /\ \A t \in Times : LoadGraph(file, t).entities = first.entities

\* a store with a bare string is saved by one call and loaded and saved
\* again by the same call a day step later: the observation still carries
\* the time of the first call
C16_Witness ==
    /\ Repeated
    /\ Recorded("delete_relations")
    /\ prev.err = None
    /\ last.err = None
    /\ prev.time < last.time
    /\ \E i \in DOMAIN StoredGraph(prev.pre).entities :
          \E j \in DOMAIN StoredGraph(prev.pre).entities[i].observations :
             /\ IsStr(StoredGraph(prev.pre).entities[i].observations[j])
             /\ Stored.entities[i].observations[j].timestamp
                   = [fmt |-> "naive", day |-> prev.time]

\* every observation of the graph is in typed form
AllTyped(graph) ==
    \A i \in DOMAIN graph.entities :
        \A j \in DOMAIN graph.entities[i].observations :
            ~IsStr(graph.entities[i].observations[j])

\* C17: round trip.  For a graph G whose observations are all typed, the
\* graph a call left in the file or the graph a load returns, loading the
\* file save wrote for G returns G at any time (same entities, observations
\* and relations, in the same order), and saving what was loaded writes the
\* same file.
C17_RoundTrip ==
    /\ (/\ last.op \in SavingOps
        /\ last.err = None
        /\ file.io = "ok"
        /\ AllTyped(Stored)) =>
          \A t \in Times :
             /\ LoadGraph(file, t) = Stored
             /\ SaveGraph(LoadGraph(file, t)) = file
    /\ \A t \in Times :
          LET G == LoadGraph(file, now) IN
          /\ AllTyped(G)
          /\ LoadGraph(SaveGraph(G), t) = G
          /\ SaveGraph(LoadGraph(SaveGraph(G), t)) = SaveGraph(G)

\* a call saved a graph with a relation and with observations stamped
\* before the call and at the call
C17_Witness ==
    /\ last.op \in SavingOps
    /\ last.err = None
    /\ file.io = "ok"
    /\ AllTyped(Stored)
    /\ Stored.relations # <<>>
    /\ \E i \in DOMAIN Stored.entities :
          \E j, k \in DOMAIN Stored.entities[i].observations :
             /\ Stored.entities[i].observations[j].timestamp.day < last.time
             /\ Stored.entities[i].observations[k].timestamp.day = last.time

\* the graph made of every well-formed entity line and every well-formed
\* relation line of the file, read at time t
RecordsOf(f, t) ==
    LET el == SelectSeq(f.lines, IsEntityRecord)
        rl == SelectSeq(f.lines, IsRelationRecord)
    IN  [entities |-> [i \in DOMAIN el |-> ParseEntity(el[i], t)],
         relations |-> [i \in DOMAIN rl |-> ParseRelation(rl[i])]]

\* C18: a corrupt line never aborts the load of the rest of the file: a
\* read of the whole graph from readable storage returns every well-formed
\* entity line and every well-formed relation line of the file, whatever
\* its other lines are.
C18_CorruptLineSkipped ==
    (/\ Recorded("read_graph")
     /\ last.pre.exists
     /\ last.pre.io = "ok") =>
        /\ last.err = None
        /\ last.ret = RecordsOf(last.pre, last.time)

\* the write of the recorded call failed
WriteFailed == last.op \in SavingOps \cup {"cleanup_outdated_observations"}
                  /\ last.err = "RuntimeError"

\* C19: a failed save does not corrupt the file: a mutating call whose
\* write cannot be done reports a failure, and after a call that reports a
\* failed write a load returns the graph the call loaded.
C19_FailedSaveKeepsFile ==
    /\ (/\ last.op \in SavingOps \ {"add_observations"}
        /\ last.pre.io \in {"open", "torn_empty", "torn_partial"})
          => last.err = "RuntimeError"
    /\ WriteFailed => After = Before

\* C20: storage errors are not swallowed: a call made while the existing
\* file, which holds records, cannot be read fails, returns nothing and
\* leaves the file alone, and a call whose write cannot be done fails.
C20_StorageErrorsPropagate ==
    /\ (/\ last.op # "none"
        /\ last.pre.exists
        /\ last.pre.io = "read"
        /\ StoredGraph(last.pre) # EmptyGraph) =>
          /\ last.err # None
          /\ last.ret = <<>>
          /\ file = last.pre
    /\ (/\ last.op \in SavingOps \ {"add_observations"}
        /\ last.pre.io \in {"open", "torn_empty", "torn_partial"})
          => last.err # None

\* the lower-cased query is a substring of the lower-cased text
FoundIn(query, text) == IsSubstring(Lower(Letters(query)), Lower(Letters(text)))

\* C21: search_nodes(q) returns exactly the loaded entities for which the
\* lower-cased q is a substring of the lower-cased name, entity type or
\* content of an observation, each once and in store order, and exactly the
\* relations whose from and to are both names of returned entities; it
\* does not fail and does not touch the file.
C21_SearchNodes ==
    Recorded("search_nodes") =>
        /\ last.err = None
        /\ file = last.pre
        /\ last.ret.entities =
              SelectSeq(Before.entities,
                        LAMBDA e :
                           \/ FoundIn(last.args, e.name)
                           \/ FoundIn(last.args, e.entity_type)
                           \/ \E i \in DOMAIN e.observations :
                                 FoundIn(last.args, e.observations[i].content))
        /\ last.ret.relations =
              SelectSeq(Before.relations,
                        LAMBDA r : /\ r.from_entity \in NamesOf(last.ret.entities)
                                   /\ r.to_entity \in NamesOf(last.ret.entities))

\* the query "a" finds the entity named "A" and not the other stored
\* entity, and the relation between the two is not returned
C21_Witness ==
    /\ Recorded("search_nodes")
    /\ last.args = "a"
    /\ last.ret.entities # <<>>
    /\ last.ret.relations = <<>>
    /\ \E i \in DOMAIN Before.relations :
          /\ Before.relations[i].from_entity \in NamesOf(last.ret.entities)
          /\ Before.relations[i].to_entity \in NamesOf(Before.entities)
          /\ Before.relations[i].to_entity \notin NamesOf(last.ret.entities)

\* C22: open_nodes(names) returns exactly the loaded entities whose name is
\* one of the requested names, compared exactly, and exactly the relations
\* whose from and to are both requested names; it does not fail, whether
\* or not a requested name has an entity, and does not touch the file.
C22_OpenNodes ==
    Recorded("open_nodes") =>
        /\ last.err = None
        /\ file = last.pre
        /\ last.ret.entities =
              SelectSeq(Before.entities, LAMBDA e : e.name \in Range(last.args))
        /\ last.ret.relations =
              SelectSeq(Before.relations,
                        LAMBDA r : /\ r.from_entity \in Range(last.args)
                                   /\ r.to_entity \in Range(last.args))

\* "B" and "a" are requested while the store holds "A" and "B": only "B" is
\* returned, and of two stored relations only the one from "B" to "B"
C22_Witness ==
    /\ Recorded("open_nodes")
    /\ last.args = <<"B", "a">>
    /\ NamesOf(Before.entities) = {"A", "B"}
    /\ NamesOf(last.ret.entities) = {"B"}
    /\ Len(last.ret.relations) = 1
    /\ Len(Before.relations) = 2

\* C26 as claimed: every relation returned by open_nodes or search_nodes
\* has its from and its to among the names of the entities the call
\* returned.
C26_ClosedQueryResults ==
    (Recorded("open_nodes") \/ Recorded("search_nodes")) =>
        \A i \in DOMAIN last.ret.relations :
            /\ last.ret.relations[i].from_entity \in NamesOf(last.ret.entities)
            /\ last.ret.relations[i].to_entity \in NamesOf(last.ret.entities)

\* C26 as amended: every relation returned by search_nodes has both
\* endpoints among the names of the returned entities; every relation
\* returned by open_nodes has both endpoints among the requested names, and
\* an endpoint is the name of a returned entity exactly when the store holds
\* an entity of that name.
C26_QueryResultEndpoints ==
    /\ Recorded("search_nodes") =>
          \A i \in DOMAIN last.ret.relations :
              /\ last.ret.relations[i].from_entity \in NamesOf(last.ret.entities)
              /\ last.ret.relations[i].to_entity \in NamesOf(last.ret.entities)
    /\ Recorded("open_nodes") =>
          \A i \in DOMAIN last.ret.relations :
              LET r == last.ret.relations[i] IN
              /\ r.from_entity \in Range(last.args)
              /\ r.to_entity \in Range(last.args)
              /\ r.from_entity \in NamesOf(last.ret.entities)
                    <=> r.from_entity \in NamesOf(Before.entities)
              /\ r.to_entity \in NamesOf(last.ret.entities)
                    <=> r.to_entity \in NamesOf(Before.entities)

\* a search returns one of two stored relations, the other one starting at
\* a name that has no entity
C26_Witness ==
    /\ Recorded("search_nodes")
    /\ Len(last.ret.relations) = 1
    /\ Len(Before.relations) = 2
    /\ \E i \in DOMAIN Before.relations :
          Before.relations[i].from_entity \notin NamesOf(Before.entities)

\* the lines of file f that load turns into no entity and no relation
SkippedLines(f) ==
    {f.lines[i] : i \in {j \in DOMAIN f.lines :
                            /\ ~IsEntityRecord(f.lines[j])
                            /\ ~IsRelationRecord(f.lines[j])}}

\* C28 as claimed: after every successful mutating call, cleanup included,
\* the file holds no line that load skips, and a read leaves the file as it
\* found it.
C28_SkippedLinesGoAtNextMutation ==
    /\ (/\ last.op \in SavingOps \cup {"cleanup_outdated_observations"}
        /\ last.err = None) => SkippedLines(file) = {}
    /\ last.op \in ReadOps => file = last.pre

\* C28 as amended: after every successful call that saves (a create, add or
\* delete call, or a cleanup that removed an observation) the file holds no
\* line that load skips; a read, and a cleanup that removed nothing, leave
\* the file as they found it, skipped lines included.
C28_SkippedLinesGoAtNextSave ==
    /\ (/\ last.op \in SavingOps
        /\ last.err = None) => SkippedLines(file) = {}
    /\ (/\ Recorded("cleanup_outdated_observations")
        /\ last.err = None
        /\ last.ret.observations_removed > 0) => SkippedLines(file) = {}
    /\ (/\ Recorded("cleanup_outdated_observations")
        /\ last.err = None
        /\ last.ret.observations_removed = 0) => file = last.pre
    /\ last.op \in ReadOps => file = last.pre

\* a successful saving call found a file with a record and a line that is
\* no record, and left a file without such a line
C28_Witness ==
    /\ last.op \in SavingOps
    /\ last.err = None
    /\ last.pre.io = "ok"
    /\ SkippedLines(last.pre) \cap {[raw |-> "text"], [type |-> "note", name |-> "A"]} # {}
    /\ StoredGraph(last.pre) # EmptyGraph
    /\ SkippedLines(file) = {}

\* C29: cleanup_outdated_observations never fails because of a stored
\* timestamp: whatever timestamp strings the stored observations carry
\* (naive, ending in 'Z', carrying an offset, or no ISO date), a cleanup
\* call returns its result and raises nothing.
C29_CleanupNeverRaises ==
    Recorded("cleanup_outdated_observations") =>
        /\ last.err = None
        /\ last.ret # <<>>
        /\ last.ret.entities_processed = Len(Before.entities)

\* C24: observation content is never empty: every observation the file
\* holds, typed or bare, has a content other than the empty string.
C24_ContentNonEmpty ==
    \A i \in DOMAIN Stored.entities :
        \A j \in DOMAIN Stored.entities[i].observations :
            ContentOf(Stored.entities[i].observations[j]) # ""

\* C25: observations are normalized at every ingress: after every mutating
\* call that returns, every observation the file holds is typed and none is
\* a bare string.
C25_NormalizedAtIngress ==
    (/\ last.op \in SavingOps \cup {"cleanup_outdated_observations"}
     /\ last.err = None) => AllTyped(Stored)

\* C27: no entity holds two observations with the same content: in a store
\* whose entities were created without repeated contents, the observations
\* of every entity have pairwise different contents.
C27_NoDuplicateContents ==
    \A i \in DOMAIN Stored.entities :
        \A j, k \in DOMAIN Stored.entities[i].observations :
            ContentOf(Stored.entities[i].observations[j])
                = ContentOf(Stored.entities[i].observations[k]) => j = k

\* an observation the file still holds although its removal is due: it is
\* no PERMANENT observation, its timestamp is no unparseable string, and it
\* is older than the longest threshold (a bare string, which carries no
\* timestamp, counts from the first day)
Overdue(obs) ==
    IF IsStr(obs) THEN now > 720
    ELSE /\ obs.durability # PERMANENT
         /\ ~Unparseable(obs)
         /\ now - obs.timestamp.day > 720

\* C30: every expiring observation is eventually cleaned up: while time
\* keeps passing and cleanup keeps being called, among reads, the file
\* eventually holds no observation whose removal is due, and stays so.
C30_EventuallyCleaned ==
    <>[](\A i \in DOMAIN Stored.entities :
            \A j \in DOMAIN Stored.entities[i].observations :
                ~Overdue(Stored.entities[i].observations[j]))

\* no call is between its load and the end of its write
Quiet == \A p \in Processes : inflight[p].pc \in {"idle", "done"}

\* process p's create_entities returned the entity it was asked to create
Created(p) ==
    /\ inflight[p].pc = "done"
    /\ inflight[p].op = "create_entities"
    /\ inflight[p].ret = inflight[p].args

\* C23: no lock is held from load to save, so the last writer wins: every
\* call returns without an error; once no call is in progress the file
\* starts with the lines the last writer computed from its own load; and
\* when two calls that loaded the same file both report that they created
\* their entity, the two entities being different, the file lacks one of
\* the two.
C23_LastWriterWins ==
    /\ \A p \in Processes : inflight[p].pc = "done" => inflight[p].err = None
    /\ (Quiet /\ writer \in Processes) =>
          SubSeq(file.lines, 1, Len(inflight[writer].lines))
              = inflight[writer].lines
    /\ (/\ Created(1)
        /\ Created(2)
        /\ inflight[1].pre = inflight[2].pre
        /\ inflight[1].args # inflight[2].args) =>
          ~({"A", "B"} \subseteq NamesOf(Stored.entities))

\* both creating calls reported success, the file holds the entity it held
\* at the start and only one of the two created, and the read, made
\* between the truncation and the write of a save, returned an empty graph
C23_Witness ==
    /\ Created(1)
    /\ Created(2)
    /\ inflight[1].args # inflight[2].args
    /\ "C" \in NamesOf(Stored.entities)
    /\ ~({"A", "B"} \subseteq NamesOf(Stored.entities))
    /\ inflight[3].pc = "done"
    /\ inflight[3].pre.exists
    /\ inflight[3].pre.lines = <<>>
    /\ inflight[3].ret = EmptyGraph

====
